---- MODULE Spec2Model ----
(***************************************************************************)
(* Model of the tide widget of src/index.tsx: the App component's state    *)
(* (chartData, loading, error, tickColors), the fetchTideData callback     *)
(* with its two await points, the mount effect and the refresh button.     *)
(*                                                                         *)
(* Rendering: the root is created with ReactDOM.createRoot (line 188), so  *)
(* the state updates a handler makes between two await points are batched  *)
(* into one render.  Each action below is one such synchronous run of the  *)
(* handler, and every state of the model is a rendered state.              *)
(*                                                                         *)
(* Strings the code inspects character by character (the value field v,    *)
(* the hour of the timestamp t, the messages written to the console) are   *)
(* sequences of one-character strings (words, for messages).               *)
(***************************************************************************)
EXTENDS Integers, Sequences, FiniteSets, TLC

\* ------------------------------------------------------------------ bounds
\* Most fetch invocations followed in one behaviour.
MaxFetches == 3
\* Longest prediction list an upstream response carries.
MaxPreds == 9

\* Most ticks (of half a minute) the clock advances in one behaviour.
MaxTicks == 3

\* ------------------------------------------------------ JavaScript values
\* null, as held by chartData (useState(null), setChartData(null)).
Null == [null |-> TRUE]

\* A JavaScript number: NaN, or a number.  ParseFloat gives its results in
\* tenths, GetHours in hours.
NaN == [nan |-> TRUE, val |-> 0]
Num(x) == [nan |-> FALSE, val |-> x]

\* Mutant of TimesMinusOne: the sign is kept.
TimesOne(x) == x

\* x * -1
TimesMinusOne(x) == IF x.nan THEN NaN ELSE Num(0 - x.val)

Digits == <<"0", "1", "2", "3", "4", "5", "6", "7", "8", "9">>
IsDigit(c) == \E d \in 1..Len(Digits) : Digits[d] = c
DigitVal(c) == (CHOOSE d \in 1..Len(Digits) : Digits[d] = c) - 1

\* Number of leading white-space characters of s from position i on.
RECURSIVE SkipSpace(_, _)
SkipSpace(s, i) ==
  IF i <= Len(s) /\ s[i] = " " THEN SkipSpace(s, i + 1) ELSE i

\* Length of the run of decimal digits of s that starts at position i.
RECURSIVE DigitRun(_, _)
DigitRun(s, i) ==
  IF i <= Len(s) /\ IsDigit(s[i]) THEN 1 + DigitRun(s, i + 1) ELSE 0

\* Value of the k decimal digits of s that start at position i.
RECURSIVE DigitsValue(_, _, _)
DigitsValue(s, i, k) ==
  IF k = 0 THEN 0
  ELSE 10 * DigitsValue(s, i, k - 1) + DigitVal(s[i + k - 1])

\* parseFloat(s): skip leading white space, read an optional sign, the
\* longest decimal literal that follows (digits, optionally a point and
\* digits) and ignore whatever comes after it; NaN when no digit is read.
\* The result is in tenths: the strings of the model carry at most one
\* digit after the point, and no exponent.
ParseFloat(s) ==
  LET i0 == SkipSpace(s, 1)
      signed == i0 <= Len(s) /\ s[i0] \in {"-", "+"}
      i1 == IF signed THEN i0 + 1 ELSE i0
      nInt == DigitRun(s, i1)
      iDot == i1 + nInt
      hasDot == iDot <= Len(s) /\ s[iDot] = "."
      nFrac == IF hasDot THEN DigitRun(s, iDot + 1) ELSE 0
      mag == 10 * DigitsValue(s, i1, nInt)
             + (IF nFrac > 0 THEN DigitVal(s[iDot + 1]) ELSE 0)
  IN  IF nInt + nFrac = 0 THEN NaN
      ELSE IF signed /\ s[i0] = "-" THEN Num(0 - mag) ELSE Num(mag)

\* new Date(p.t).getHours(): the hour field of the timestamp, in local
\* time; NaN for an Invalid Date.  t holds the two characters of the hour
\* field of "YYYY-MM-DD HH:MM".
GetHours(t) ==
  IF Len(t) = 2 /\ IsDigit(t[1]) /\ IsDigit(t[2])
     /\ 10 * DigitVal(t[1]) + DigitVal(t[2]) <= 23
  THEN Num(10 * DigitVal(t[1]) + DigitVal(t[2]))
  ELSE NaN

\* ------------------------------------------------- the series transformer
\* const values = predictions.map(p => parseFloat(p.v) * -1)
Values(predictions) ==
  [i \in 1..Len(predictions) |-> TimesMinusOne(ParseFloat(predictions[i].v))]

\* Mutant of Indices: the last index is the length.
IndicesOffByOne(numPredictions) ==
  << 0,
     (numPredictions - 1) \div 4,
     (2 * (numPredictions - 1)) \div 4,
     (3 * (numPredictions - 1)) \div 4,
     numPredictions >>

\* The five candidate tick indices (0-based, as in the code), then the
\* members of new Set(indices).
Indices(numPredictions) ==
  << 0,
     (numPredictions - 1) \div 4,
     (2 * (numPredictions - 1)) \div 4,
     (3 * (numPredictions - 1)) \div 4,
     numPredictions - 1 >>
IndexSet(numPredictions) ==
  {Indices(numPredictions)[k] : k \in 1..Len(Indices(numPredictions))}

\* Mutant of IsDay: the hour 18 counts as day.
IsDayInclusive(hour) == ~hour.nan /\ hour.val >= 6 /\ hour.val <= 18

\* hour >= 6 && hour < 18; every comparison with NaN is false.
IsDay(hour) == ~hour.nan /\ hour.val >= 6 /\ hour.val < 18

SUN == "sun"
MOON == "moon"
ORANGE == "#FFA500"
LIGHTBLUE == "#ADD8E6"
TRANSPARENT == "transparent"

\* labels and colors after the forEach over the selected indices;
\* position i of the sequence is index i - 1 of the array.
Labels(predictions) ==
  [i \in 1..Len(predictions) |->
     IF (i - 1) \in IndexSet(Len(predictions))
     THEN (IF IsDay(GetHours(predictions[i].t)) THEN SUN ELSE MOON)
     ELSE ""]
Colors(predictions) ==
  [i \in 1..Len(predictions) |->
     IF (i - 1) \in IndexSet(Len(predictions))
     THEN (IF IsDay(GetHours(predictions[i].t)) THEN ORANGE ELSE LIGHTBLUE)
     ELSE TRANSPARENT]

\* The object handed to setChartData: the labels and two datasets that
\* hold the same values.
Chart(predictions) ==
  [labels |-> Labels(predictions),
   datasets |-> << [data |-> Values(predictions), fill |-> "start"],
                   [data |-> Values(predictions), fill |-> "end"] >>]

\* ------------------------------------------------- upstream responses
\* Value strings of the upstream records: decimals, a decimal followed by
\* a unit (parseFloat reads its prefix), and strings with no number.
GoodValues == << <<"1", ".", "5">>, <<"-", "0", ".", "3">>, <<"2">>,
                 <<" ", "4", "f", "t">> >>
BadValues == << <<"x">>, <<>> >>

\* The hour field of a timestamp whose local hour is h.
HourField(h) == << Digits[(h \div 10) + 1], Digits[(h % 10) + 1] >>
StartHourSeq == <<3, 5, 6, 17, 18>>
StartHours == {StartHourSeq[k] : k \in 1..Len(StartHourSeq)}

\* n records, three hours apart from hour h0 on, with the good values in
\* turn from the a-th on.
GoodList(n, a, h0) ==
  [i \in 1..n |->
     [t |-> HourField((h0 + 3 * (i - 1)) % 24),
      v |-> GoodValues[((a + i - 1) % Len(GoodValues)) + 1]]]
\* The same list with the value of record k replaced by a bad value.
BadList(n, b, k, h0) ==
  [i \in 1..n |->
     IF i = k THEN [t |-> GoodList(n, 0, h0)[i].t, v |-> BadValues[b]]
     ELSE GoodList(n, 0, h0)[i]]
\* A list whose first timestamp is no date at all.
UndatedList(n) ==
  [i \in 1..n |-> IF i = 1 THEN [t |-> <<"x">>, v |-> GoodValues[1]]
                  ELSE GoodList(n, 0, 3)[i]]

\* Five records at the hours 3, 9, 12, 15 and 21.
ScenarioHours == <<3, 9, 12, 15, 21>>
ScenarioList ==
  [i \in 1..Len(ScenarioHours) |->
     [t |-> HourField(ScenarioHours[i]),
      v |-> GoodValues[((i - 1) % Len(GoodValues)) + 1]]]

\* The lists the upstream service answers with: the empty one; one list of
\* every length, the first value and the first hour turning with the
\* length; one record at each start hour; a bad value at the end or at the
\* start; a timestamp that is no date; the scenario.
PredictionLists ==
  { <<>>, ScenarioList }
  \cup {GoodList(n, n % Len(GoodValues),
                 StartHourSeq[(n % Len(StartHourSeq)) + 1]) : n \in 1..MaxPreds}
  \cup {GoodList(1, 0, h0) : h0 \in StartHours}
  \cup {BadList(n, b, n, 6) : n \in {1, MaxPreds}, b \in 1..Len(BadValues)}
  \cup {BadList(3, 1, 1, 3), UndatedList(2), UndatedList(MaxPreds)}

\* Messages of the upstream service's error object.
UpstreamMessages == { <<>>, <<"X">>, <<"No", "Predictions", "data">> }

NoError == [present |-> FALSE, message |-> <<>>]
ErrorObject(m) == [present |-> TRUE, message |-> m]
NoPredictions == [present |-> FALSE, list |-> <<>>]
Predictions(l) == [present |-> TRUE, list |-> l]

\* The parsed bodies: { predictions: [...] }, { error: { message } }, both
\* fields, or neither.
Bodies ==
  {[error |-> NoError, predictions |-> Predictions(l)] : l \in PredictionLists}
  \cup {[error |-> ErrorObject(m), predictions |-> NoPredictions] :
          m \in UpstreamMessages}
  \cup {[error |-> ErrorObject(m), predictions |-> Predictions(l)] :
          m \in UpstreamMessages,
          l \in {<<>>, GoodList(1, 0, 6), GoodList(MaxPreds, 0, 3)}}
  \cup {[error |-> NoError, predictions |-> NoPredictions]}

\* ------------------------------------------------------ thrown errors
NotOkMessage == <<"Network", "response", "was", "not", "ok">>
InvalidDataMessage == <<"Invalid", "data", "from", "NOAA", "API">>
\* What the runtime throws: fetch() rejecting, response.json() rejecting.
FailedToFetchMessage == <<"Failed", "to", "fetch">>
SyntaxErrorMessage == <<"Unexpected", "token">>

\* Mutant of Invalid: the check of the list's length is left out.
InvalidIgnoresEmpty(data) ==
  \/ data.error.present
  \/ ~data.predictions.present

\* data.error || !data.predictions || data.predictions.length === 0
Invalid(data) ==
  \/ data.error.present
  \/ ~data.predictions.present
  \/ Len(data.predictions.list) = 0

\* Mutant of ThrownMessage: the upstream message is dropped.
ThrownDefaultMessage(data) == InvalidDataMessage

\* data.error?.message || 'Invalid data from NOAA API': the empty string
\* is falsy.
ThrownMessage(data) ==
  IF data.error.present /\ data.error.message # <<>>
  THEN data.error.message
  ELSE InvalidDataMessage

\* ------------------------------------------------------------- state
VARIABLES
  chartData,   \* useState(null): Null, or the object built by Chart
  loading,     \* useState(true)
  error,       \* useState(false)
  tickColors,  \* useState([]): read by chartOptions.scales.x.ticks.color
  mounted,     \* whether the mount effect has run
  calls,       \* each fetchTideData invocation: where it stands, and the
               \* ok flag of the response it holds once fetch() resolved
  started,     \* number of fetchTideData invocations so far
  refreshes,   \* number of clicks the refresh button has passed on
  log,         \* what console.error has written, in order
  origin,      \* for each state variable, the invocation that last set it
               \* (0: the initial value)
  last,        \* the outcome of the invocation that completed last
  now,         \* the wall clock: half minutes since the page was loaded
  requests,    \* the outbound requests fetch(url) has issued, in order
  commits      \* what the last two successful invocations handed to
               \* setTickColors and setChartData, with the list they read

vars == <<chartData, loading, error, tickColors, mounted, calls, started,
          refreshes, log, origin, last, now, requests, commits>>

FetchIds == 1..MaxFetches
Fields == {"chartData", "loading", "error", "tickColors"}

\* The invocations suspended at one of the two await points.
InFlight == {id \in FetchIds : calls[id].pc \in {"fetch", "json"}}

EmptyBody == [error |-> NoError, predictions |-> NoPredictions]

\* ------------------------------------------------------ the query
\* The local time of day at which the page is loaded, in half minutes:
\* 09:58:30.  The behaviours of the model stay within that day, and the
\* begin_date of the model is the HH:MM part of `YYYYMMDD HH:MM`.
LoadedAt == 2 * (9 * 60 + 58) + 1

\* Mutant of BeginDate: the time is read once, when the page is loaded.
BeginDateAtLoad(t) ==
  LET m == LoadedAt \div 2
  IN  << Digits[((m \div 60) \div 10) + 1], Digits[((m \div 60) % 10) + 1],
         ":",
         Digits[((m % 60) \div 10) + 1], Digits[((m % 60) % 10) + 1] >>

\* now.getHours().toString().padStart(2, '0') : now.getMinutes()...: the
\* clock reading t, cut to the minute, as two digits each.
BeginDate(t) ==
  LET m == (LoadedAt + t) \div 2
      hours == (m \div 60) % 24
      minutes == m % 60
  IN  << Digits[(hours \div 10) + 1], Digits[(hours % 10) + 1],
         ":",
         Digits[(minutes \div 10) + 1], Digits[(minutes % 10) + 1] >>

\* ------------------------------------------------- state updates, batched
\* Mutant of ResetCalls: the old chart is kept while the new fetch runs.
ResetKeepsChart ==
  << [set |-> "loading", to |-> TRUE],
     [set |-> "error", to |-> FALSE] >>

\* Mutant of ResetCalls: only the error flag is reset.
ResetErrorOnly ==
  << [set |-> "error", to |-> FALSE] >>

\* The setState calls of one synchronous run of the handler, in order.
\* setLoading(true); setError(false); setChartData(null)
ResetCalls ==
  << [set |-> "loading", to |-> TRUE],
     [set |-> "error", to |-> FALSE],
     [set |-> "chartData", to |-> Null] >>

\* Mutant of CommitCalls: the colours are added to the ones held.
CommitAppendsColors(predictions) ==
  << [set |-> "tickColors", to |-> tickColors \o Colors(predictions)],
     [set |-> "chartData", to |-> Chart(predictions)],
     [set |-> "loading", to |-> FALSE] >>

\* Mutant of CommitCalls: setTickColors is left out.
CommitKeepsColors(predictions) ==
  << [set |-> "chartData", to |-> Chart(predictions)],
     [set |-> "loading", to |-> FALSE] >>

\* Mutant of CommitCalls: loading is not reset after a commit.
CommitNoFinally(predictions) ==
  << [set |-> "tickColors", to |-> Colors(predictions)],
     [set |-> "chartData", to |-> Chart(predictions)] >>

\* setTickColors(colors); setChartData({...}); finally setLoading(false)
CommitCalls(predictions) ==
  << [set |-> "tickColors", to |-> Colors(predictions)],
     [set |-> "chartData", to |-> Chart(predictions)],
     [set |-> "loading", to |-> FALSE] >>

\* Mutant of CatchCalls: there is no finally block.
CatchCallsNoFinally ==
  << [set |-> "error", to |-> TRUE] >>

\* catch: setError(true); finally: setLoading(false)
CatchCalls ==
  << [set |-> "error", to |-> TRUE],
     [set |-> "loading", to |-> FALSE] >>

\* The value of a state variable in the render that follows the batch: that
\* of the last call that sets it, the old value when none does.
ValueAfter(field, old, batch) ==
  LET at == {i \in DOMAIN batch : batch[i].set = field}
  IN  IF at = {} THEN old
      ELSE batch[CHOOSE i \in at : \A j \in at : j <= i].to

\* The render that follows the batch of invocation id.
Render(batch, id) ==
  /\ chartData' = ValueAfter("chartData", chartData, batch)
  /\ loading' = ValueAfter("loading", loading, batch)
  /\ error' = ValueAfter("error", error, batch)
  /\ tickColors' = ValueAfter("tickColors", tickColors, batch)
  /\ origin' = [f \in Fields |->
                  IF \E i \in DOMAIN batch : batch[i].set = f
                  THEN id ELSE origin[f]]

\* ------------------------------------------------------------- actions
Init ==
  /\ chartData = Null
  /\ loading = TRUE
  /\ error = FALSE
  /\ tickColors = <<>>
  /\ mounted = FALSE
  /\ calls = [id \in FetchIds |-> [pc |-> "idle", ok |-> TRUE]]
  /\ started = 0
  /\ refreshes = 0
  /\ log = <<>>
  /\ origin = [f \in Fields |-> 0]
  /\ last = [id |-> 0, kind |-> "none", ok |-> TRUE, data |-> EmptyBody]
  /\ now = 0
  /\ requests = <<>>
  /\ commits = <<>>

\* fetchTideData up to its first await: the reset, the query, fetch(url).
Invoke ==
  /\ started < MaxFetches
  /\ started' = started + 1
  /\ calls' = [calls EXCEPT ![started + 1] = [pc |-> "fetch", ok |-> TRUE]]
  /\ Render(ResetCalls, started + 1)
  /\ requests' = Append(requests, [fetch |-> started + 1, at |-> now,
                                   begin |-> BeginDate(now)])
  /\ UNCHANGED <<log, last, now, commits>>

\* useEffect(() => { fetchTideData() }, [fetchTideData]): the callback has
\* no dependencies, so the effect runs once, after the first render.
Mount ==
  /\ ~mounted
  /\ mounted' = TRUE
  /\ Invoke
  /\ UNCHANGED refreshes

\* Mutant of RefreshEnabled: the button is rendered whenever no fetch runs.
RefreshWhenIdle == ~loading

\* Mutant of RefreshEnabled: the button is rendered, and enabled, always.
RefreshAlways == TRUE

\* The refresh button is part of the fragment rendered when chartData is
\* set, and carries disabled={loading}.
RefreshEnabled == chartData # Null /\ ~loading

\* onClick={fetchTideData}: a click is a discrete event, whose updates are
\* rendered before the next event is handled, so the button a click finds
\* is that of the current state.
Refresh ==
  /\ mounted
  /\ RefreshEnabled
  /\ refreshes' = refreshes + 1
  /\ Invoke
  /\ UNCHANGED mounted

\* Mutant of Catch: a failed invocation starts the next one by itself.
CatchRetries(id, message) ==
  /\ log' = Append(log, [fetch |-> id, message |-> message])
  /\ UNCHANGED <<mounted, refreshes, now, commits>>
  /\ IF started < MaxFetches
     THEN /\ started' = started + 1
          /\ calls' = [calls EXCEPT ![id].pc = "done",
                                    ![started + 1].pc = "fetch"]
          /\ Render(ResetCalls, started + 1)
          /\ requests' = Append(requests, [fetch |-> started + 1, at |-> now,
                                           begin |-> BeginDate(now)])
     ELSE /\ Render(CatchCalls, id)
          /\ calls' = [calls EXCEPT ![id].pc = "done"]
          /\ UNCHANGED <<started, requests>>

\* Mutant of Catch: a failed invocation issues its request once more.
CatchRefetches(id, message) ==
  /\ log' = Append(log, [fetch |-> id, message |-> message])
  /\ Render(CatchCalls, id)
  /\ calls' = [calls EXCEPT ![id].pc = "done"]
  /\ requests' = Append(requests, [fetch |-> id, at |-> now,
                                   begin |-> BeginDate(now)])
  /\ UNCHANGED <<mounted, started, refreshes, now, commits>>

\* catch (e) { console.error(e); setError(true) } finally
\* { setLoading(false) }: the end of invocation id.
Catch(id, message) ==
  /\ log' = Append(log, [fetch |-> id, message |-> message])
  /\ Render(CatchCalls, id)
  /\ calls' = [calls EXCEPT ![id].pc = "done"]
  /\ UNCHANGED <<mounted, started, refreshes, now, requests, commits>>

\* await fetch(url) rejects: a transport failure.
FetchRejects(id) ==
  /\ calls[id].pc = "fetch"
  /\ Catch(id, FailedToFetchMessage)
  /\ last' = [id |-> id, kind |-> "rejected", ok |-> FALSE, data |-> EmptyBody]

\* Mutant of NotOkThrows: the status of the response is not looked at.
NeverThrows(ok) == FALSE

\* if (!response.ok) throw new Error('Network response was not ok')
NotOkThrows(ok) == ~ok

\* await fetch(url) resolves with a response whose ok flag is ok.
FetchResolves(id, ok) ==
  /\ calls[id].pc = "fetch"
  /\ IF NotOkThrows(ok)
     THEN /\ Catch(id, NotOkMessage)
          /\ last' = [id |-> id, kind |-> "notok", ok |-> ok,
                      data |-> EmptyBody]
     ELSE /\ calls' = [calls EXCEPT ![id] = [pc |-> "json", ok |-> ok]]
          /\ UNCHANGED <<chartData, loading, error, tickColors, mounted,
                         started, refreshes, log, origin, last, now,
                         requests, commits>>

\* await response.json() rejects: the body is no JSON.
JsonRejects(id) ==
  /\ calls[id].pc = "json"
  /\ Catch(id, SyntaxErrorMessage)
  /\ last' = [id |-> id, kind |-> "badjson", ok |-> calls[id].ok,
              data |-> EmptyBody]

\* The record of a commit: the arguments of setTickColors and
\* setChartData of invocation id, after that of the commit before it.
Committed(id, predictions) ==
  LET setters == CommitCalls(predictions)
      entry == [fetch |-> id, list |-> predictions,
                tickColors |-> ValueAfter("tickColors", tickColors, setters),
                chartData |-> ValueAfter("chartData", chartData, setters)]
  IN  IF commits = <<>> THEN <<entry>>
      ELSE <<commits[Len(commits)], entry>>

\* await response.json() resolves with data: the check of the body, then
\* the transform and the commit, or the throw.
JsonResolves(id, data) ==
  /\ calls[id].pc = "json"
  /\ last' = [id |-> id, kind |-> "parsed", ok |-> calls[id].ok,
              data |-> data]
  /\ IF Invalid(data)
     THEN Catch(id, ThrownMessage(data))
     ELSE /\ Render(CommitCalls(data.predictions.list), id)
          /\ calls' = [calls EXCEPT ![id].pc = "done"]
          /\ commits' = Committed(id, data.predictions.list)
          /\ UNCHANGED <<mounted, started, refreshes, log, now, requests>>

\* The wall clock advances by half a minute.
Tick ==
  /\ now < MaxTicks
  /\ now' = now + 1
  /\ UNCHANGED <<chartData, loading, error, tickColors, mounted, calls,
                 started, refreshes, log, origin, last, requests, commits>>

Next ==
  \/ Mount
  \/ Refresh
  \/ \E id \in FetchIds : FetchRejects(id)
  \/ \E id \in FetchIds, ok \in BOOLEAN : FetchResolves(id, ok)
  \/ \E id \in FetchIds : JsonRejects(id)
  \/ \E id \in FetchIds, data \in Bodies : JsonResolves(id, data)

\* The widget with the clock at rest: every response, no passing of time.
Spec == Init /\ [][Next]_vars

\* A few bodies: a list of one record, the scenario, an empty list, an
\* upstream error.
FewBodies ==
  {[error |-> NoError, predictions |-> Predictions(l)] :
     l \in {<<>>, GoodList(1, 0, 6), ScenarioList}}
  \cup {[error |-> ErrorObject(<<"X">>), predictions |-> NoPredictions]}

\* The completion of an await of an invocation in flight.
Settle ==
  \/ \E id \in FetchIds : FetchRejects(id)
  \/ \E id \in FetchIds, ok \in BOOLEAN : FetchResolves(id, ok)
  \/ \E id \in FetchIds : JsonRejects(id)
  \/ \E id \in FetchIds, data \in FewBodies : JsonResolves(id, data)

ClockNext ==
  \/ Mount
  \/ Refresh
  \/ Tick
  \/ Settle

\* The widget with the clock running, and a few responses.
ClockSpec == Init /\ [][ClockNext]_vars

\* The same, when the effect of the first render runs and every request
\* resolves or rejects.
FairSpec == ClockSpec /\ WF_vars(Mount) /\ WF_vars(Settle)

\* ------------------------------------------------ the rendered states
\* What the return statement renders: the loading glyph, the error glyph,
\* and the fragment with the chart and the refresh button.
Rendered ==
  (IF loading THEN {"loading"} ELSE {})
  \cup (IF error THEN {"error"} ELSE {})
  \cup (IF chartData # Null THEN {"chart", "refresh"} ELSE {})

Ready == mounted /\ ~loading /\ chartData # Null
Failed == mounted /\ ~loading /\ error

\* needle is a run of consecutive words of hay.
Contains(hay, needle) ==
  \E o \in 0..Len(hay) :
    /\ o + Len(needle) <= Len(hay)
    /\ \A k \in 1..Len(needle) : hay[o + k] = needle[k]

\* The entries console.error wrote for invocation id.
LogOf(id) == {i \in DOMAIN log : log[i].fetch = id}

\* ------------------------------------------------------------- claims
\* C1: from either terminal state, Ready or Error, the manual refresh is
\* available (the button is rendered and enabled), so that a failed fetch
\* can always be retried.
C1_RefreshFromTerminal == (Ready \/ Failed) => RefreshEnabled

\* C2: while the widget is Loading no step passes a refresh on (the refresh
\* is a no-op), no step starts an invocation while another is in flight, and
\* at most one invocation is in flight at any time.
C2_NoOverlap ==
  [][/\ loading => refreshes' = refreshes
     /\ InFlight # {} => started' = started
     /\ Cardinality(InFlight') <= 1]_vars
C2_Witness == loading /\ refreshes >= 1 /\ Cardinality(InFlight) = 1

\* C3: once every invocation has completed, the displayed state is the one
\* the most recently started invocation produced: it completed last, it set
\* every displayed variable, and what is displayed is its outcome.
C3_LatestDecides ==
  (InFlight = {} /\ started > 0) =>
    /\ last.id = started
    /\ origin["loading"] = started
    /\ origin["error"] = started
    /\ origin["chartData"] = started
    /\ chartData # Null =>
         /\ last.kind = "parsed"
         /\ chartData = Chart(last.data.predictions.list)
    /\ chartData = Null => error
C3_Witness ==
  /\ InFlight = {}
  /\ started >= 2
  /\ chartData # Null
  /\ last.id = started

\* C4: every rendered state shows exactly one of the loading glyph, the
\* error glyph and the chart, and the refresh button only with the chart.
C4_OneIndicator ==
  /\ Cardinality(Rendered \cap {"loading", "error", "chart"}) = 1
  /\ "refresh" \in Rendered => "chart" \in Rendered
C4_Witness ==
  /\ Rendered = {"error"}
  /\ started >= 2

\* The parsed body of the invocation that completed last has no
\* prediction list, or an empty one.
LastListEmpty ==
  /\ last.kind = "parsed"
  /\ \/ ~last.data.predictions.present
     \/ Len(last.data.predictions.list) = 0

\* C5: a parsed response with an empty or missing prediction list ends in
\* Error, never in Ready, and no chart is ever built from 0 predictions.
C5_EmptyIsError ==
  /\ LastListEmpty => (error /\ ~loading /\ chartData = Null)
  /\ chartData # Null =>
       /\ Len(chartData.labels) > 0
       /\ Len(chartData.datasets[1].data) > 0
       /\ Len(tickColors) > 0
C5_Witness ==
  /\ last.kind = "parsed"
  /\ ~last.data.error.present
  /\ last.data.predictions.present
  /\ last.data.predictions.list = <<>>
  /\ Rendered = {"error"}

\* C6: a parsed response that carries an error field with message X ends in
\* Error, also when it carries a non-empty prediction list, and an entry
\* console.error wrote for that invocation contains X.
C6_UpstreamErrorLogged ==
  (last.kind = "parsed" /\ last.data.error.present) =>
    /\ error /\ ~loading /\ chartData = Null
    /\ \E i \in LogOf(last.id) :
         Contains(log[i].message, last.data.error.message)
C6_Witness ==
  /\ last.kind = "parsed"
  /\ last.data.error.present
  /\ last.data.error.message = <<"X">>
  /\ Len(last.data.predictions.list) > 0
  /\ error
  /\ \E i \in LogOf(last.id) : log[i].message = <<"X">>

\* The invocation that completed last met a transport failure, a response
\* that is not ok, or a body that is no JSON.
LastFailed ==
  \/ last.kind \in {"rejected", "notok", "badjson"}
  \/ (last.kind = "parsed" /\ ~last.ok)

\* C7: a transport failure, a non-success status and an unparseable body
\* are each caught and logged and leave the widget in Error with no chart;
\* a chart that is shown was built from the parsed body of an ok response
\* that passed the check.
C7_FailuresCaught ==
  /\ LastFailed =>
       /\ error /\ ~loading /\ chartData = Null
       /\ LogOf(last.id) # {}
  /\ chartData # Null =>
       /\ last.kind = "parsed" /\ last.ok
       /\ ~last.data.error.present
       /\ LogOf(last.id) = {}
       /\ chartData = Chart(last.data.predictions.list)
C7_Witness ==
  /\ last.kind = "badjson"
  /\ started >= 2
  /\ error /\ chartData = Null
  /\ Len(log) = 1

\* C8: a chart is shown only when every value string of the list it was
\* built from parses to a number.
C8_ValuesValidated ==
  chartData # Null =>
    \A i \in DOMAIN last.data.predictions.list :
      ~ParseFloat(last.data.predictions.list[i].v).nan

\* C9: an invocation makes the state Loading with no error and no chart,
\* and once it has completed every state variable (chartData, loading,
\* error, tickColors) has been set by that invocation, none by an earlier
\* one.
C9_FullReplace ==
  /\ loading => (~error /\ chartData = Null)
  /\ (InFlight = {} /\ started > 0) =>
       \A f \in Fields : origin[f] \in {0, started}

\* C10: the widget starts in Loading with no fetch started; mounting starts
\* exactly one, and every other invocation is started by a refresh that the
\* button passed on.
C10_MountAndRefreshOnly ==
  /\ ~mounted => (loading /\ started = 0 /\ Rendered = {"loading"})
  /\ started = (IF mounted THEN 1 ELSE 0) + refreshes
C10_Witness ==
  /\ mounted
  /\ refreshes >= 2
  /\ started = refreshes + 1
  /\ Len(log) >= 1

\* The requests fetch(url) issued for invocation id.
RequestsOf(id) == {i \in DOMAIN requests : requests[i].fetch = id}

\* C11: every invocation issues exactly one outbound request, and a failed
\* one none after it: there are as many requests as invocations.
C11_OneRequestEach ==
  /\ Len(requests) = started
  /\ \A id \in FetchIds :
       Cardinality(RequestsOf(id)) = (IF id <= started THEN 1 ELSE 0)
C11_Witness ==
  /\ Failed
  /\ started = 2
  /\ Len(log) = 1
  /\ Len(requests) = 2

\* The list the chart on display was built from, and the 0-based indices
\* of the labels that are not empty.
ShownList == last.data.predictions.list
Marked == {i - 1 : i \in {j \in DOMAIN chartData.labels :
                            chartData.labels[j] # ""}}
\* floor(k * (n - 1) / 4) for k = 0..4
Quartiles(n) == {(k * (n - 1)) \div 4 : k \in 0..4}

\* C12: for every count n >= 1 the selected tick indices are at most 5,
\* lie in 0..n-1 and include 0 and n-1; the labels of a chart are set at
\* exactly these indices.
C12_TickIndices ==
  /\ \A n \in 1..MaxPreds :
       /\ IndexSet(n) = Quartiles(n)
       /\ Cardinality(IndexSet(n)) <= 5
       /\ IndexSet(n) \subseteq 0..(n - 1)
       /\ 0 \in IndexSet(n)
       /\ (n - 1) \in IndexSet(n)
  /\ chartData # Null =>
       /\ Marked = Quartiles(Len(ShownList))
       /\ Cardinality(Marked) <= 5
       /\ {0, Len(ShownList) - 1} \subseteq Marked
C12_Witness ==
  /\ chartData # Null
  /\ Len(ShownList) >= 6
  /\ Cardinality(Marked) = 5
  /\ Marked # 0..(Len(ShownList) - 1)

\* C13: in every Ready state a selected index has the day label and the
\* warm colour exactly when the local hour of its timestamp is in [6,18),
\* the night label and the cool colour otherwise; every other index has the
\* empty label and the transparent colour.  The hours 3, 9, 12, 15, 21
\* give night, day, day, day, night at the indices 0..4.
C13_DayNight ==
  chartData # Null =>
    /\ \A i \in DOMAIN ShownList :
         LET hour == GetHours(ShownList[i].t)
             day == ~hour.nan /\ hour.val \in 6..17
         IN  /\ Len(chartData.labels) >= i /\ Len(tickColors) >= i
             /\ (i - 1) \in Quartiles(Len(ShownList)) /\ day =>
                  chartData.labels[i] = SUN /\ tickColors[i] = ORANGE
             /\ (i - 1) \in Quartiles(Len(ShownList)) /\ ~day =>
                  chartData.labels[i] = MOON /\ tickColors[i] = LIGHTBLUE
             /\ (i - 1) \notin Quartiles(Len(ShownList)) =>
                  chartData.labels[i] = "" /\ tickColors[i] = TRANSPARENT
    /\ ShownList = ScenarioList =>
         /\ Marked = 0..4
         /\ chartData.labels = <<MOON, SUN, SUN, SUN, MOON>>
C13_Witness ==
  /\ chartData # Null
  /\ ShownList = ScenarioList
  /\ chartData.labels = <<MOON, SUN, SUN, SUN, MOON>>
  /\ tickColors = <<LIGHTBLUE, ORANGE, ORANGE, ORANGE, LIGHTBLUE>>

\* Every value string of the list parses to a number.
AllParse(list) == \A i \in DOMAIN list : ~ParseFloat(list[i].v).nan

\* C14: for a list whose values all parse, the series of the chart has the
\* length of the list and sample i is the parsed value of record i,
\* negated, in the order of arrival.
C14_SeriesNegated ==
  (chartData # Null /\ AllParse(ShownList)) =>
    \A d \in DOMAIN chartData.datasets :
      /\ Len(chartData.datasets[d].data) = Len(ShownList)
      /\ \A i \in DOMAIN ShownList :
           chartData.datasets[d].data[i]
             = Num(0 - ParseFloat(ShownList[i].v).val)
C14_Witness ==
  /\ chartData # Null
  /\ ShownList = ScenarioList
  /\ chartData.datasets[1].data
       = <<Num(0 - 15), Num(3), Num(0 - 20), Num(0 - 40), Num(0 - 15)>>

\* C15: two invocations that read the same list commit the same series,
\* labels and tick colours, whatever the state before each; what a Ready
\* state holds is what the last one committed.
C15_SameInSameOut ==
  /\ (Len(commits) = 2 /\ commits[1].list = commits[2].list) =>
       /\ commits[1].chartData = commits[2].chartData
       /\ commits[1].tickColors = commits[2].tickColors
  /\ chartData # Null =>
       /\ commits # <<>>
       /\ chartData = commits[Len(commits)].chartData
       /\ tickColors = commits[Len(commits)].tickColors
C15_Witness ==
  /\ Len(commits) = 2
  /\ commits[1].list = commits[2].list
  /\ commits[1].fetch = 2 /\ commits[2].fetch = 3
  /\ Len(commits[2].list) = MaxPreds
  /\ chartData = commits[1].chartData

\* The minute of the day a begin_date names, read back from its digits.
MinuteOfDay(begin) ==
  60 * (10 * DigitVal(begin[1]) + DigitVal(begin[2]))
  + 10 * DigitVal(begin[4]) + DigitVal(begin[5])
\* The minute of the day of the clock reading t.
MinuteAt(t) == ((LoadedAt + t) \div 2) % (24 * 60)

\* C16 as stated: the begin timestamp of a request is the time read at its
\* invocation, and two requests between which the clock has advanced never
\* carry the same begin timestamp.
C16_NeverSameBegin ==
  \A i, j \in DOMAIN requests :
    /\ MinuteOfDay(requests[i].begin) = MinuteAt(requests[i].at)
    /\ (i < j /\ requests[i].at < requests[j].at) =>
         requests[i].begin # requests[j].begin

\* C16, amended: the begin timestamp of the request an invocation issues
\* names the minute of the clock at that invocation, and differs from that
\* of every earlier request issued in another minute.
C16_BeginIsNow ==
  [][Len(requests') > Len(requests) =>
       LET r == requests'[Len(requests')]
       IN  /\ Len(r.begin) = 5 /\ r.begin[3] = ":"
           /\ MinuteOfDay(r.begin) = MinuteAt(now)
           /\ \A i \in DOMAIN requests :
                MinuteAt(requests[i].at) # MinuteAt(now) =>
                  requests[i].begin # r.begin]_vars
C16_Witness ==
  /\ Len(requests) = 2
  /\ requests[1].begin = <<"0", "9", ":", "5", "8">>
  /\ requests[2].begin = <<"1", "0", ":", "0", "0">>

\* C17: when the effect runs and every request resolves or rejects, Loading
\* is always followed by Ready or Error, and once no invocation is in
\* flight the loading flag is false.
C17_LeavesLoading ==
  /\ loading ~> (Ready \/ Failed)
  /\ []((mounted /\ InFlight = {}) => ~loading)
C17_Witness ==
  /\ Failed
  /\ started >= 2
  /\ last.kind = "rejected"

\* C18: the refresh button is rendered only with the chart, and every
\* invocation a user starts is started from a state that shows the chart,
\* not the loading or the error glyph.
C18_RefreshOnlyFromChart ==
  [][(refreshes' # refreshes \/ (mounted /\ started' # started)) =>
       /\ Rendered = {"chart", "refresh"}
       /\ chartData # Null /\ ~loading /\ ~error]_vars
C18_Witness ==
  /\ refreshes >= 1
  /\ Rendered = {"loading"}
  /\ origin["loading"] = refreshes + 1
  /\ commits # <<>>

\* C19 as stated: loading is true exactly when an invocation is in flight,
\* and the error flag and the chart are never both set.
C19_LoadingIffInFlight ==
  /\ loading <=> InFlight # {}
  /\ ~(error /\ chartData # Null)

\* C19, amended: once the mount effect has run, loading is true exactly
\* when an invocation is in flight; before it loading is true and none is;
\* the error flag and the chart are never both set.
C19_LoadingIffInFlightOnceMounted ==
  /\ mounted => (loading <=> InFlight # {})
  /\ ~mounted => (loading /\ InFlight = {})
  /\ ~(error /\ chartData # Null)
C19_Witness ==
  /\ mounted
  /\ ~loading
  /\ InFlight = {}
  /\ started >= 2
  /\ chartData # Null

\* C20: when a chart is present, the labels, the tick colours and both
\* datasets have the length of the list the chart was built from, the two
\* datasets hold the same series, and a label is set exactly where the
\* tick colour is not transparent.
C20_ChartShape ==
  chartData # Null =>
    /\ Len(chartData.labels) = Len(ShownList)
    /\ Len(tickColors) = Len(ShownList)
    /\ Len(chartData.datasets) = 2
    /\ \A d \in DOMAIN chartData.datasets :
         Len(chartData.datasets[d].data) = Len(ShownList)
    /\ chartData.datasets[1].data = chartData.datasets[2].data
    /\ \A i \in DOMAIN chartData.labels :
         chartData.labels[i] # "" <=> tickColors[i] # TRANSPARENT
C20_Witness ==
  /\ chartData # Null
  /\ Len(commits) = 2
  /\ Len(commits[1].tickColors) > Len(tickColors)
  /\ \E i \in DOMAIN tickColors : tickColors[i] = TRANSPARENT

====
